---- MODULE Spec2Model ----
(***************************************************************************)
(* Model of csv_exp.py: the streaming export exp_sql and the binary column *)
(* rewriter transform_row_binary.                                          *)
(*                                                                         *)
(* Two invocations of the exporter are modelled, over the same result set, *)
(* description and options, each into its own output path; invocation r    *)
(* runs with --array-size DEFAULT_ARRAY[r].  They share nothing, so one    *)
(* interleaving stands for all: the second is started when the first has   *)
(* closed its cursor, and the summaries come after both fetch loops.       *)
(*                                                                         *)
(* Python None for a string option is written "" : every test the code     *)
(* makes on NULL_AS, binary_path and binary_rel_path is a truth test,      *)
(* which None and '' both fail.                                            *)
(***************************************************************************)
EXTENDS Integers, Sequences, FiniteSets, TLC

\* ---- bounds ----
MaxRows == 3        \* longest result set
MaxArray == 2       \* largest --array-size of the first invocation

Runs == {1, 2}

\* elapsed times of an export, in whole milliseconds
ElapsedMs == {0, 1}

VARIABLES
  description,        \* cur.description: sequence of [name, type]
  resultset,          \* the rows the cursor will deliver, in cursor order
  OUTPUT_HEADER,      \* global, line 62
  NULL_AS,            \* global, line 68 ("" is None)
  binary_path,        \* exp_sql parameter ("" is None)
  binary_rel_path,    \* exp_sql parameter ("" is None)
  DEFAULT_ARRAY,      \* global, line 60, per invocation
  seeded,             \* the binary directory as the exports find it
  pc,                 \* position of each invocation in exp_sql
  curpos,             \* rows the cursor has delivered so far
  rows,               \* local `rows`
  rowcount,           \* local `rowcount`
  binary_by_filename, \* local dict, as the sequence of its items in insertion order
  bi,                 \* position of the `for hash, binary` loop in the items
  sink,               \* lines written through csv_writer
  fs,                 \* the binary directory: [dir, files]
  created,            \* filenames this invocation created with open(.., 'bx'), in order
  report              \* [duration_ms, rate100] printed by the summary, or NoReport

vars == <<description, resultset, OUTPUT_HEADER, NULL_AS, binary_path,
          binary_rel_path, DEFAULT_ARRAY, seeded, pc, curpos, rows, rowcount,
          binary_by_filename, bi, sink, fs, created, report>>

config == <<description, resultset, OUTPUT_HEADER, NULL_AS, binary_path,
            binary_rel_path, DEFAULT_ARRAY, seeded>>

\* F(v, w) with v and w evaluated once, before F
Bind2(v, w, F(_, _)) == CHOOSE res \in {F(x, y) : x \in {v}, y \in {w}} : TRUE

\* ---- cell values ----
PyNone == [t |-> "None", v |-> ""]
Str(s) == [t |-> "str", v |-> s]
Bytes(b) == [t |-> "bytes", v |-> b]
Lob(b) == [t |-> "lob", v |-> b]

\* ---- cx_Oracle column types and the binary ones (lines 72, 323) ----
BinaryTypes == {"LONG_BINARY", "BINARY", "BLOB"}

\* binaryColumnIdxs: positions whose driver type is binary, ascending
RECURSIVE binaryColumnIdxsFrom(_, _)
binaryColumnIdxsFrom(cx_description, i) ==
  IF i > Len(cx_description) THEN <<>>
  ELSE (IF cx_description[i].type \in BinaryTypes THEN <<i>> ELSE <<>>)
       \o binaryColumnIdxsFrom(cx_description, i + 1)

binaryColumnIdxs(cx_description) == binaryColumnIdxsFrom(cx_description, 1)

\* ---- content sniffing and hashing ----
\* magic.from_buffer(byts, mime=True): [type, subtype], or NoMime when nothing is detected
NoMime == [type |-> "", subtype |-> ""]
magic_from_buffer(byts) ==
  CASE byts = "GIF89a" -> [type |-> "image", subtype |-> "gif"]
    [] byts = "MZ" -> [type |-> "application", subtype |-> "x-dosexec"]
    [] byts = "\\0" -> NoMime
    [] OTHER -> [type |-> "application", subtype |-> "octet-stream"]

\* mimetypes.guess_extension: "" when the type has no known extension
guess_extension(mime) ==
  CASE mime = [type |-> "image", subtype |-> "gif"] -> ".gif"
    [] mime = [type |-> "application", subtype |-> "octet-stream"] -> ".bin"
    [] OTHER -> ""

detectFileExtension(byts) ==
  LET mime_data == magic_from_buffer(byts) IN
  IF mime_data = NoMime THEN ""
  ELSE LET extension == guess_extension(mime_data) IN
       IF extension = "" THEN "." \o mime_data.subtype ELSE extension

\* hashlib.sha256(data).hexdigest(): one digest per byte string
sha256_hexdigest(data) == "sha256[" \o data \o "]"

blob_filename(data) ==
  LET extension == detectFileExtension(data)
      hash == sha256_hexdigest(data) IN
  IF extension # "" THEN hash \o extension ELSE hash

blob_reference(rel_path, filename) == "file://" \o rel_path \o "/" \o filename

\* lines 264-268: a LOB handle is read, anything else is taken as it is
cell_data(objOrBytes) ==
  IF objOrBytes.t = "lob" THEN Bytes(objOrBytes.v) ELSE objOrBytes

\* `not data`: None, b'' and '' are false
is_falsy(data) == data = PyNone \/ data.v = ""

\* dict assignment d[k] = v on the item sequence: a key already there keeps
\* its place and takes the new value, a new key goes last
dict_set(items, k, v) ==
  IF \E i \in 1..Len(items) : items[i].filename = k
  THEN [i \in 1..Len(items) |->
          IF items[i].filename = k THEN [filename |-> k, data |-> v] ELSE items[i]]
  ELSE Append(items, [filename |-> k, data |-> v])

\* lines 262-291 for one binary column: the cell that replaces row[col]
new_cell(row, col, rel_path) ==
  LET data == cell_data(row[col]) IN
  IF is_falsy(data) THEN Str("")
  ELSE Str(blob_reference(rel_path, blob_filename(data.v)))

\* lines 260-291 for one row: `row` stays the row as fetched, and each binary
\* column in turn assigns rows[ri] (cur) a copy of `row` with that one cell
\* replaced (lines 272-274, 289-291)
RECURSIVE transform_cols(_, _, _, _, _)
transform_cols(row, cur, binary_cols, k, rel_path) ==
  IF k > Len(binary_cols) THEN cur
  ELSE transform_cols(row,
                      [row EXCEPT ![binary_cols[k]] = new_cell(row, binary_cols[k], rel_path)],
                      binary_cols, k + 1, rel_path)

\* the assignment of line 288 that step n of the loops of lines 259-260
\* makes; step n is row (n-1) \div m + 1 and binary column (n-1) % m + 1 of
\* m.  No filename: the step took the `continue` of line 275.
loop_put(batch, binary_cols, n) ==
  LET m == Len(binary_cols)
      data == cell_data(batch[((n - 1) \div m) + 1][binary_cols[((n - 1) % m) + 1]]) IN
  IF is_falsy(data) THEN [filename |-> "", data |-> ""]
  ELSE [filename |-> blob_filename(data.v), data |-> data.v]

\* binary_by_filename after the first n steps
RECURSIVE dict_after(_, _, _)
dict_after(batch, binary_cols, n) ==
  IF n = 0 THEN <<>>
  ELSE Bind2(dict_after(batch, binary_cols, n - 1), loop_put(batch, binary_cols, n),
             LAMBDA items, put :
               IF put.filename = "" THEN items
               ELSE dict_set(items, put.filename, put.data))

transform_row_binary(cx_description, rel_path, batch) ==
  Bind2(binaryColumnIdxs(cx_description), batch,
        LAMBDA binary_cols, b :
          IF Len(binary_cols) = 0
          THEN [rows |-> b, binary_by_filename |-> <<>>]
          ELSE [rows |-> [ri \in 1..Len(b) |->
                            transform_cols(b[ri], b[ri], binary_cols, 1, rel_path)],
                binary_by_filename |->
                  dict_after(b, binary_cols, Len(b) * Len(binary_cols))])

\* ---- the cursor ----
Min(a, b) == IF a < b THEN a ELSE b

\* mutant of fetchmany: a fetch after the first starts at the last row delivered
fetchmany_overlap(pos, n) ==
  SubSeq(resultset, IF pos = 0 THEN 1 ELSE pos, Min(pos + n - 1, Len(resultset)))

\* cur.fetchmany(n) with `pos` rows already delivered
fetchmany(pos, n) == SubSeq(resultset, pos + 1, Min(pos + n, Len(resultset)))

\* ---- the CSV writer (dialect "unix": every field quoted) ----
\* A cell that is not a string is written as str() gives it; the address in
\* the text of a LOB handle is left out.
csv_field(cell) ==
  LET text == CASE cell.t = "None" -> ""
                [] cell.t = "str" -> cell.v
                [] cell.t = "bytes" -> "b'" \o cell.v \o "'"
                [] OTHER -> "<cx_Oracle.LOB object>" IN
  "\"" \o text \o "\""

writerow(row) == [i \in 1..Len(row) |-> csv_field(row[i])]

writerows(batch) == [i \in 1..Len(batch) |-> writerow(batch[i])]

header_row(cx_description) ==
  [i \in 1..Len(cx_description) |-> Str(cx_description[i].name)]

\* mutant of header_lines: the flag is not consulted
header_lines_always(flag, cx_description) ==
  <<writerow(header_row(cx_description))>>

\* lines 200-201
header_lines(flag, cx_description) ==
  IF flag THEN <<writerow(header_row(cx_description))>> ELSE <<>>

\* mutant of null_substitute: the scan stops after the first row of the batch
null_substitute_first(batch, null_as) ==
  IF null_as # ""
  THEN [r \in 1..Len(batch) |->
          [i \in 1..Len(batch[r]) |->
             IF r = 1 /\ batch[r][i] = PyNone THEN Str(null_as) ELSE batch[r][i]]]
  ELSE batch

\* lines 229-236
null_substitute(batch, null_as) ==
  IF null_as # ""
  THEN [r \in 1..Len(batch) |->
          [i \in 1..Len(batch[r]) |->
             IF batch[r][i] = PyNone THEN Str(null_as) ELSE batch[r][i]]]
  ELSE batch

\* ---- the binary directory ----
file_exists(d, filename) == d.dir /\ filename \in DOMAIN d.files

\* mutants of os_path_exists: the test looks at the directory, not the file;
\* the test never finds the file
os_path_exists_dir(d, filename) == d.dir

os_path_exists_never(d, filename) == FALSE

\* line 220
os_path_exists(d, filename) == file_exists(d, filename)

\* os.mkdir(binary_path, mode=0o700) with FileExistsError passed over
os_mkdir(d) == [d EXCEPT !.dir = TRUE]

\* mutant of write_new_file: the bytes land under a temporary name
write_new_file_part(d, filename, binary) ==
  [d EXCEPT !.files = [f \in DOMAIN d.files \cup {filename \o ".part"} |->
                         IF f = filename \o ".part" THEN binary ELSE d.files[f]]]

\* open(write_path, 'bx'); f.write(binary)
write_new_file(d, filename, binary) ==
  [d EXCEPT !.files = [f \in DOMAIN d.files \cup {filename} |->
                         IF f = filename THEN binary ELSE d.files[f]]]

\* ---- the summary (lines 244-248) ----
\* round(num / den, 0) on non-negative integers, ties to even
round_div(num, den) ==
  LET q == num \div den
      twice == 2 * (num % den) IN
  IF twice < den THEN q
  ELSE IF twice > den THEN q + 1
  ELSE IF q % 2 = 0 THEN q ELSE q + 1

\* round(rowcount / duration_s, 2) in hundredths, duration_s = duration_ms / 1000
rate_hundredths(count, duration_ms) == round_div(count * 100000, duration_ms)

NoReport == [duration_ms |-> -1, rate100 |-> -1]

\* ---- inputs ----
Tables ==
  { [description |-> <<[name |-> "ID", type |-> "NUMBER"],
                       [name |-> "DATA", type |-> "BLOB"]>>,
     rowset |-> { <<Str("1"), Bytes("GIF89a")>>,
                  <<PyNone, Lob("GIF89a")>>,
                  <<Str("2"), PyNone>> }],
    [description |-> <<[name |-> "DOC", type |-> "BLOB"],
                       [name |-> "SIG", type |-> "BINARY"]>>,
     rowset |-> { <<Lob("GIF89a"), Bytes("MZ")>>,
                  <<Bytes(""), Lob("\\0")>> }],
    [description |-> <<[name |-> "ID", type |-> "NUMBER"],
                       [name |-> "NAME", type |-> "STRING"]>>,
     rowset |-> { <<Str("1"), PyNone>>,
                  <<PyNone, Str("b")>> }] }

SeqsUpTo(S, n) == UNION {[1..k -> S] : k \in 0..n}

NoDir == [dir |-> FALSE, files |-> <<>>]
\* a directory left by an earlier export, holding a file of other content
\* under the name of the GIF blob
SeededDir == [dir |-> TRUE, files |-> (blob_filename("GIF89a") :> "stale")]

Init ==
  /\ \E t \in Tables :
       /\ description = t.description
       /\ resultset \in SeqsUpTo(t.rowset, MaxRows)
  /\ OUTPUT_HEADER \in BOOLEAN
  /\ NULL_AS \in {"", "\\N"}
  /\ \/ /\ binary_path = "" /\ binary_rel_path = ""
        /\ seeded = NoDir
     \/ /\ binary_path = "/out/T" /\ binary_rel_path = "T"
        /\ seeded \in {NoDir, SeededDir}
  /\ fs = [r \in Runs |-> seeded]
  /\ \E k \in 1..MaxArray : DEFAULT_ARRAY = [r \in Runs |-> k + r - 1]
  /\ pc = [r \in Runs |-> "start"]
  /\ curpos = [r \in Runs |-> 0]
  /\ rows = [r \in Runs |-> <<>>]
  /\ rowcount = [r \in Runs |-> 0]
  /\ binary_by_filename = [r \in Runs |-> <<>>]
  /\ bi = [r \in Runs |-> 1]
  /\ sink = [r \in Runs |-> <<>>]
  /\ created = [r \in Runs |-> <<>>]
  /\ report = [r \in Runs |-> NoReport]

Finished == {"done", "ZeroDivisionError", "FileExistsError"}

\* the fetch loop is over: cursor closed, or the export aborted
LoopOver == {"summary"} \cup Finished

\* ---- exp_sql ----
\* lines 187-201: execute, first fetch, header
Begin(r) ==
  /\ pc[r] = "start"
  /\ IF r = 1 THEN TRUE ELSE pc[r - 1] = "summary"
  /\ rowcount' = [rowcount EXCEPT ![r] = 0]
  /\ rows' = [rows EXCEPT ![r] = fetchmany(0, DEFAULT_ARRAY[r])]
  /\ curpos' = [curpos EXCEPT ![r] = Len(fetchmany(0, DEFAULT_ARRAY[r]))]
  /\ binary_by_filename' = [binary_by_filename EXCEPT ![r] = <<>>]
  /\ sink' = [sink EXCEPT ![r] = header_lines(OUTPUT_HEADER, description)]
  /\ pc' = [pc EXCEPT ![r] = "while"]
  /\ UNCHANGED <<config, bi, fs, created, report>>

\* lines 203-208: the loop test holds; count and transform the batch
LoopBody(r) ==
  /\ pc[r] = "while"
  /\ Len(rows[r]) > 0
  /\ rowcount' = [rowcount EXCEPT ![r] = @ + Len(rows[r])]
  /\ IF binary_path # "" /\ binary_rel_path # ""
     THEN \E res \in {transform_row_binary(description, binary_rel_path, rows[r])} :
          /\ rows' = [rows EXCEPT ![r] = res.rows]
          /\ binary_by_filename' = [binary_by_filename EXCEPT ![r] = res.binary_by_filename]
     ELSE UNCHANGED <<rows, binary_by_filename>>
  /\ pc' = [pc EXCEPT ![r] = "mkdir"]
  /\ UNCHANGED <<config, curpos, bi, sink, fs, created, report>>

\* lines 210-214
Mkdir(r) ==
  /\ pc[r] = "mkdir"
  /\ fs' = [fs EXCEPT ![r] = IF Len(binary_by_filename[r]) > 0 THEN os_mkdir(@) ELSE @]
  /\ bi' = [bi EXCEPT ![r] = 1]
  /\ pc' = [pc EXCEPT ![r] = "for"]
  /\ UNCHANGED <<config, curpos, rows, rowcount, binary_by_filename, sink, created, report>>

\* lines 216-222: next item of the dict; skip it when its file exists
BlobCheck(r) ==
  /\ pc[r] = "for"
  /\ bi[r] <= Len(binary_by_filename[r])
  /\ IF os_path_exists(fs[r], binary_by_filename[r][bi[r]].filename)
     THEN /\ bi' = [bi EXCEPT ![r] = @ + 1]
          /\ pc' = pc
     ELSE /\ bi' = bi
          /\ pc' = [pc EXCEPT ![r] = "open"]
  /\ UNCHANGED <<config, curpos, rows, rowcount, binary_by_filename, sink, fs, created, report>>

\* lines 224-226: exclusive create; FileExistsError is not caught in exp_sql
BlobOpen(r) ==
  /\ pc[r] = "open"
  /\ LET item == binary_by_filename[r][bi[r]] IN
     IF file_exists(fs[r], item.filename)
     THEN /\ pc' = [pc EXCEPT ![r] = "FileExistsError"]
          /\ UNCHANGED <<fs, created, bi>>
     ELSE /\ fs' = [fs EXCEPT ![r] = write_new_file(@, item.filename, item.data)]
          /\ created' = [created EXCEPT ![r] = Append(@, item.filename)]
          /\ bi' = [bi EXCEPT ![r] = @ + 1]
          /\ pc' = [pc EXCEPT ![r] = "for"]
  /\ UNCHANGED <<config, curpos, rows, rowcount, binary_by_filename, sink, report>>

\* lines 228-240: NULL substitution, writerows, next fetch
WriteRows(r) ==
  /\ pc[r] = "for"
  /\ bi[r] > Len(binary_by_filename[r])
  /\ LET out == null_substitute(rows[r], NULL_AS)
         next == fetchmany(curpos[r], DEFAULT_ARRAY[r]) IN
     /\ sink' = [sink EXCEPT ![r] = @ \o writerows(out)]
     /\ rows' = [rows EXCEPT ![r] = next]
     /\ curpos' = [curpos EXCEPT ![r] = @ + Len(next)]
  /\ pc' = [pc EXCEPT ![r] = "while"]
  /\ UNCHANGED <<config, rowcount, binary_by_filename, bi, fs, created, report>>

\* lines 203, 242: the loop test fails; cur.close()
LoopExit(r) ==
  /\ pc[r] = "while"
  /\ Len(rows[r]) = 0
  /\ pc' = [pc EXCEPT ![r] = "summary"]
  /\ UNCHANGED <<config, curpos, rows, rowcount, binary_by_filename, bi, sink, fs, created, report>>

\* lines 244-248: duration_s = round(stop - start, 3) is duration_ms / 1000
Summary(r) ==
  /\ pc[r] = "summary"
  /\ \A q \in Runs : pc[q] \in LoopOver
  /\ \E duration_ms \in ElapsedMs :
       IF duration_ms = 0
       THEN /\ pc' = [pc EXCEPT ![r] = "ZeroDivisionError"]
            /\ UNCHANGED report
       ELSE /\ report' = [report EXCEPT ![r] =
                            [duration_ms |-> duration_ms,
                             rate100 |-> rate_hundredths(rowcount[r], duration_ms)]]
            /\ pc' = [pc EXCEPT ![r] = "done"]
  /\ UNCHANGED <<config, curpos, rows, rowcount, binary_by_filename, bi, sink, fs, created>>

\* another export of the same data into the same binary directory creates
\* the blob file this export has just tested for and not found (a file the
\* other export creates before the test is a file found there: SeededDir)
OtherExport(r) ==
  /\ pc[r] = "open"
  /\ LET item == binary_by_filename[r][bi[r]] IN
     /\ ~file_exists(fs[r], item.filename)
     /\ fs' = [fs EXCEPT ![r] = write_new_file(@, item.filename, item.data)]
  /\ UNCHANGED <<config, pc, curpos, rows, rowcount, binary_by_filename, bi, sink, created, report>>

Next ==
  \E r \in Runs :
    \/ Begin(r)
    \/ LoopBody(r)
    \/ Mkdir(r)
    \/ BlobCheck(r)
    \/ BlobOpen(r)
    \/ WriteRows(r)
    \/ LoopExit(r)
    \/ Summary(r)

NextRace == Next \/ \E r \in Runs : OtherExport(r)

Spec == Init /\ [][Next]_vars

FairSpec == Init /\ [][Next]_vars /\ WF_vars(Next)

SpecRace == Init /\ [][NextRace]_vars

\* ======================= properties =======================

\* the data lines of invocation r: the sink without the header line
DataLines(r) ==
  IF OUTPUT_HEADER /\ Len(sink[r]) > 0 THEN Tail(sink[r]) ELSE sink[r]

HeaderLine == [i \in 1..Len(description) |-> "\"" \o description[i].name \o "\""]

BinaryCols == {c \in 1..Len(description) : description[c].type \in BinaryTypes}

Externalizing == binary_path # "" /\ binary_rel_path # ""

\* the payload of a fetched binary cell: "" when it is NULL or empty
Payload(cell) == IF cell.t = "None" THEN "" ELSE cell.v

\* the filenames of the blobs of the first n rows of the result set
BlobNames(n) ==
  {blob_filename(Payload(resultset[i][c])) :
     <<i, c>> \in {ic \in (1..n) \X BinaryCols : Payload(resultset[ic[1]][ic[2]]) # ""}}

Count(seq, x) == Cardinality({i \in 1..Len(seq) : seq[i] = x})

\* the cell transform_row_binary is to leave in a binary column
ExpectedBinaryCell(cell) ==
  IF Payload(cell) = "" THEN Str("")
  ELSE Str("file://" \o binary_rel_path \o "/" \o sha256_hexdigest(Payload(cell))
           \o detectFileExtension(Payload(cell)))

\* the batch in `rows` has been through transform_row_binary and is not yet written
Transformed(r) == pc[r] \in {"mkdir", "for", "open", "FileExistsError"} /\ Externalizing

\* C1: in the batch transform_row_binary returns, every binary column cell of
\* every row is '' for an empty or absent payload and the file:// reference
\* of the payload otherwise; none is left as bytes or as a LOB handle.
C1_EveryBinaryCellRewritten ==
  \A r \in Runs :
    Transformed(r) =>
      \A i \in 1..Len(rows[r]) : \A c \in BinaryCols :
        rows[r][i][c] = ExpectedBinaryCell(resultset[curpos[r] - Len(rows[r]) + i][c])

\* C2: during one exp_sql run no blob filename is created twice, and once the
\* fetch loop is over every blob filename of the result set has been created
\* exactly once, or not at all when its file was there before the export.
C2_WrittenOnce ==
  \A r \in Runs :
    /\ \A f \in BlobNames(Len(resultset)) : Count(created[r], f) <= 1
    /\ (pc[r] \in LoopOver /\ Externalizing) =>
         \A f \in BlobNames(Len(resultset)) :
           Count(created[r], f) = IF seeded.dir /\ f \in DOMAIN seeded.files THEN 0 ELSE 1

\* C2 witness: the loop is over, the same payload came in two different
\* batches and twice in one batch, and its file was created by this run
C2_Witness ==
  \E r \in Runs :
    /\ pc[r] = "summary" /\ Externalizing /\ DEFAULT_ARRAY[r] = 2
    /\ Len(resultset) = 3
    /\ \E c \in BinaryCols : \E p \in {"GIF89a"} :
         /\ \A i \in 1..3 : Payload(resultset[i][c]) = p
         /\ Count(created[r], blob_filename(p)) = 1

\* the export is at a blob whose file exists
AtExistingBlob(r) ==
  /\ pc[r] = "for"
  /\ bi[r] <= Len(binary_by_filename[r])
  /\ fs[r].dir
  /\ binary_by_filename[r][bi[r]].filename \in DOMAIN fs[r].files

\* C3: no step of the export changes the contents of a file that exists in
\* the binary directory; at a blob whose file exists the export creates
\* nothing and moves on to the next blob of the batch.
C3_ExistingFileKept ==
  [][\A r \in Runs :
       /\ \A f \in DOMAIN fs[r].files :
            f \in DOMAIN fs'[r].files /\ fs'[r].files[f] = fs[r].files[f]
       /\ AtExistingBlob(r) =>
            /\ fs'[r] = fs[r]
            /\ created'[r] = created[r]
            /\ pc'[r] = "for"
            /\ bi'[r] = bi[r] + 1]_vars

\* C3 witness: the export finished although the seeded file holds other
\* bytes than the export had for that name, and the file still holds them
C3_Witness ==
  \E r \in Runs :
    /\ pc[r] = "done" /\ Externalizing
    /\ seeded = SeededDir
    /\ blob_filename("GIF89a") \in BlobNames(Len(resultset))
    /\ fs[r].files[blob_filename("GIF89a")] = "stale"
    /\ Len(sink[r]) >= Len(resultset)

\* C4: a NULL fetched in any column, binary or not, is written as the marker
\* when one is configured and as an empty field when none is.
C4_NullSubstitution ==
  \A r \in Runs :
    \A i \in 1..Len(DataLines(r)) : \A c \in 1..Len(description) :
      resultset[i][c] = PyNone =>
        DataLines(r)[i][c] = IF NULL_AS # "" THEN "\"" \o NULL_AS \o "\"" ELSE "\"\""

\* C5: the export with array size K and the export with array size K+1 of
\* the same result set write the same lines and leave the same directory.
C5_BatchTransparency ==
  (pc[1] \in LoopOver /\ pc[2] \in LoopOver) =>
    /\ sink[1] = sink[2]
    /\ fs[1] = fs[2]

\* C5 witness: both loops are over, the two runs cut the result set into
\* batches differently, blobs were created and a NULL was substituted
C5_Witness ==
  /\ pc[1] = "summary" /\ pc[2] = "summary"
  /\ Len(resultset) = 3 /\ DEFAULT_ARRAY[1] = 2
  /\ Externalizing /\ NULL_AS # ""
  /\ Len(created[1]) > 0
  /\ \E i \in 2..3 : \E c \in 1..Len(description) :
       c \notin BinaryCols /\ resultset[i][c] = PyNone

\* C6: a blob file created by another export between the os.path.exists
\* test and the exclusive open does not abort this export.
C6_RaceIsSkipped ==
  \A r \in Runs : pc[r] # "FileExistsError"

\* C7: with the header flag set and a non-empty result set the header is the
\* first line written and no other line; with the flag unset no line is.
C7_HeaderOnce ==
  \A r \in Runs :
    (pc[r] # "start" /\ Len(resultset) > 0) =>
      IF OUTPUT_HEADER
      THEN /\ Len(sink[r]) >= 1
           /\ sink[r][1] = HeaderLine
           /\ \A i \in 2..Len(sink[r]) : sink[r][i] # HeaderLine
      ELSE \A i \in 1..Len(sink[r]) : sink[r][i] # HeaderLine

\* C7 witness: three batches were written under one header
C7_Witness ==
  \E r \in Runs :
    /\ pc[r] = "done" /\ OUTPUT_HEADER
    /\ DEFAULT_ARRAY[r] = 1 /\ Len(resultset) = 3
    /\ Len(sink[r]) = 4

\* the line the export writes for one fetched row
RowLine(row) ==
  LET t == IF Externalizing
           THEN transform_row_binary(description, binary_rel_path, <<row>>).rows
           ELSE <<row>> IN
  writerow(null_substitute(t, NULL_AS)[1])

LoopEndedRight(r) ==
  /\ rows[r] = <<>>
  /\ curpos[r] = Len(resultset)
  /\ rowcount[r] = Len(resultset)
  /\ Len(DataLines(r)) = Len(resultset)
  /\ \A i \in 1..Len(resultset) : DataLines(r)[i] = RowLine(resultset[i])

\* C8: the fetch loop of every run ends; when it has ended the last fetch was
\* empty, rowcount is the number of rows of the result set and the data lines
\* are the lines of those rows, one each, in cursor order.
C8_LoopEnds ==
  <>(\A r \in Runs : pc[r] \in LoopOver /\ LoopEndedRight(r))

\* C8 witness: a loop ended after three fetches of one row and an empty one
C8_Witness ==
  \E r \in Runs :
    /\ pc[r] = "summary"
    /\ DEFAULT_ARRAY[r] = 1 /\ Len(resultset) = 3
    /\ rowcount[r] = 3 /\ rows[r] = <<>>

\* C9: the summary never faults on a division by zero, and reports rate 0
\* for 0 rows.
C9_NoDivisionFault ==
  \A r \in Runs :
    /\ pc[r] # "ZeroDivisionError"
    /\ (pc[r] = "done" /\ rowcount[r] = 0) => report[r].rate100 = 0

\* the file:// reference fields a line may hold
ReferenceOf(f) == "\"file://" \o binary_rel_path \o "/" \o f \o "\""

\* C10: at every point of a run, aborted or not, every file:// reference in a
\* line already written names a file that exists in the binary directory.
C10_BlobBeforeReference ==
  \A r \in Runs :
    \A i \in 1..Len(sink[r]) : \A c \in 1..Len(sink[r][i]) :
      \A f \in BlobNames(Len(resultset)) :
        sink[r][i][c] = ReferenceOf(f) =>
          fs[r].dir /\ f \in DOMAIN fs[r].files

\* C10 witness: a run aborted in a later batch after lines holding
\* references had been written
C10_Witness ==
  \E r \in Runs :
    /\ pc[r] = "FileExistsError"
    /\ \E i \in 1..Len(sink[r]) : \E c \in 1..Len(sink[r][i]) :
         \E f \in BlobNames(Len(resultset)) : sink[r][i][c] = ReferenceOf(f)

====
